---- MODULE Spec2Model ----
(***************************************************************************)
(* MyPodcaster: the briefing job pipeline.                                 *)
(*                                                                         *)
(* One job is created in the registry and processed by process_briefing:   *)
(* the agent loop (run_agent / _agent_loop) talks to the language model    *)
(* and runs its tool calls, the speech fan-out (generate_all_audio)        *)
(* synthesises one audio file per article, and the orchestrator finalises  *)
(* the job record.  A status poll on the same event loop reads the job     *)
(* record whenever process_briefing is suspended at an await.              *)
(***************************************************************************)
EXTENDS Integers, Sequences, FiniteSets, TLC

\* ------------------------------------------------------------------ bounds
\* settings.agent_max_turns (15 in app/config.py), scaled down
agent_max_turns == 3
\* settings.agent_max_tokens (100000 in app/config.py), scaled down
agent_max_tokens == 1
\* largest number of tool calls the model requests in one turn
MaxCalls == 2
\* largest number of articles in a script (15 in BriefingScript), scaled down
MaxArticles == 3
\* number of attempts for which the speech provider's answer is enumerated
ProviderTries == 2
\* largest number of adapter failures (incidents) during one job
MaxIncidents == 1

\* number of ticks of the clock
MaxTime == 3
\* number of job ids uuid4 can draw
MaxJobs == 2
\* settings.audio_cache_ttl_hours (24 in app/config.py), in ticks
audio_cache_ttl_hours == 1

\* number of distinct non-empty queries, and of distinct urls
MaxKeys == 2
\* maxsize of _hn_cache and of _url_cache (100 and 200 in app/tools.py)
CacheSize == 1
\* ttl of _hn_cache (300 s) and of _url_cache (3600 s), in ticks
hn_cache_ttl == 1
url_cache_ttl == 2
\* largest number of hits the search provider returns, largest points of a hit
MaxHits == 3
MaxPoints == 1
\* the length under which content is thin (100 in app/tools.py)
MinContentLength == 2
\* settings.max_article_content_length (4000 in app/config.py)
max_article_content_length == 3
\* largest length of the text the reader returns
MaxLen == 4
\* largest number of incidents summarize_errors is given
MaxErrs == 3

VARIABLES
    status,             \* job.status
    phase,              \* job.progress.phase
    articles_read,      \* job.progress.articles_read
    result,             \* job.result
    error,              \* job.error
    completed_at,       \* job.completed_at is set
    jobErrors,          \* job.errors
    pc,                 \* where process_briefing stands
    errors,             \* run_agent: the local list `errors`
    turn,               \* _agent_loop: the loop variable `turn`
    total_tokens,       \* _agent_loop: total_tokens
    budget_exceeded,    \* _agent_loop: budget_exceeded of the call in flight
    modelCalls,         \* number of chat.completions.create calls issued
    toolCalls,          \* the tool tasks handed to asyncio.gather this turn
    toolMessages,       \* _agent_loop: the role "tool" messages appended to
                        \* `messages` since the last model call was issued
    reads_ok,           \* history: read_url calls whose adapter returned no incident
    script,             \* number of articles of the parsed script (0: none)
    raised,             \* the exception travelling up, "" when none
    loopExit,           \* how _agent_loop ended
    finalizeResponded,  \* a response to a finalize-now call has been received
    ttsItem,            \* generate_all_audio: per position, the future's fate
    audio_files,        \* generate_all_audio: keys of `results`
    ttsErrors,          \* generate_all_audio: the local list `errors`
    seen,               \* what the last status poll returned
    escaped,            \* exception propagated out of process_briefing
    now,                \* the clock: datetime.now(UTC) and the caches' timer
    jobs,               \* jobs.py: the registry _jobs
    lookup,             \* the last registry operation and what it returned
    hn_cache,           \* tools.py: _hn_cache
    url_cache,          \* tools.py: _url_cache
    adapterCall,        \* the last adapter call: its arguments, whether it
                        \* sent a request, and what it returned or raised
    incidents,          \* summarize_errors: its argument `errors`
    details,            \* summarize_errors: the list it returned
    pair                \* two jobs created one after the other, each with
                        \* its Job fields and its process_briefing execution

vars == << status, phase, articles_read, result, error,
           completed_at, jobErrors, pc, errors, turn, total_tokens,
           budget_exceeded, modelCalls, toolCalls, toolMessages, reads_ok,
           script, raised, loopExit, finalizeResponded, ttsItem, audio_files,
           ttsErrors, seen, escaped,
           now, jobs, lookup, hn_cache, url_cache, adapterCall,
           incidents, details, pair >>

jobVars == << status, phase, articles_read, result, error,
              completed_at, jobErrors >>
loopVars == << turn, total_tokens, budget_exceeded, modelCalls, toolCalls,
               toolMessages, reads_ok, finalizeResponded >>
ttsVars == << ttsItem, audio_files, ttsErrors >>

registryVars == << jobs, lookup >>
adapterVars == << hn_cache, url_cache, adapterCall >>
summaryVars == << incidents, details >>

\* the state of the registry, the tool adapters and the error summary
serviceVars == << now, jobs, lookup, hn_cache, url_cache, adapterCall,
                  incidents, details, pair >>

\* the state of one job's process_briefing and of its poller
pipelineVars == << status, phase, articles_read, result, error, completed_at,
                   jobErrors, pc, errors, turn, total_tokens, budget_exceeded,
                   modelCalls, toolCalls, toolMessages, reads_ok, script,
                   raised, loopExit, finalizeResponded, ttsItem, audio_files,
                   ttsErrors, seen, escaped >>

\* ------------------------------------------------------------ data model
JobStatus == {"PENDING", "PROCESSING", "COMPLETED", "FAILED"}
JobPhase == {"PENDING", "AGENT", "TTS", "DONE"}

\* list(ErrorSeverity): the members in their order of definition
ErrorSeverity == << "RECOVERABLE", "DEGRADED", "FATAL" >>

\* BriefingError: the fields the pipeline reads (each code has one message
\* text, which stands for it)
BriefingError(code, severity, source, recovered) ==
    [code |-> code, message |-> code, severity |-> severity, source |-> source,
     recovered |-> recovered]

\* mutant: the new incidents replace the list
ExtendReplaces(list, more) == more

\* job.errors.extend(more)
Extend(list, more) == list \o more

NoResult == [set |-> FALSE, articles |-> 0, audio_url |-> {}, audio_files |-> {}]
NoError == [set |-> FALSE, code |-> "", message |-> [text |-> "", type |-> ""],
            details |-> << >>]

\* mutant: the articles of the result carry no audio_url
JobResultNoUrls(n, urls, files) ==
    [set |-> TRUE, articles |-> n, audio_url |-> {}, audio_files |-> files]

\* JobResult(articles=script.articles, audio_files=audio_files)
JobResult(n, urls, files) ==
    [set |-> TRUE, articles |-> n, audio_url |-> urls, audio_files |-> files]

\* JobError(code=..., message=..., details=...)
JobError(code, message, summary) ==
    [set |-> TRUE, code |-> code, message |-> message, details |-> summary]

\* The exceptions of the pipeline; all derive from Exception
Exceptions == {"AgentTimeoutError", "TimeoutError", "JSONDecodeError",
               "ValidationError", "APIError", "TypeError",
               "TTSCompleteFailureError", "TTSMajorityFailureError"}

\* ----------------------------------------------------------- environment
\* response.usage.total_tokens of one model response: none reported, or
\* enough to exceed the budget
Usage == {0, agent_max_tokens + 1}

\* One requested tool call: the function name and whether its arguments
\* are usable; "null_url" is a read_url call whose url is JSON null
ToolKinds == { [name |-> "search_hn", args |-> "valid"],
               [name |-> "read_url", args |-> "valid"],
               [name |-> "read_url", args |-> "null_url"] }

ToolRequests == UNION { [1..k -> ToolKinds] : k \in 1..MaxCalls }

\* what the adapters return: "ok" or the code of the incident
SearchOutcomes == {"ok", "hn_no_results"}
ReadOutcomes == {"ok", "jina_forbidden"}

\* ------------------------------------------------------------------ Init
\* the job as create_job builds it, before process_briefing runs
PipelineInit ==
    /\ status = "PENDING"
    /\ phase = "PENDING"
    /\ articles_read = 0
    /\ result = NoResult
    /\ error = NoError
    /\ completed_at = FALSE
    /\ jobErrors = << >>
    /\ pc = "created"
    /\ errors = << >>
    /\ turn = 0
    /\ total_tokens = 0
    /\ budget_exceeded = FALSE
    /\ modelCalls = 0
    /\ toolCalls = << >>
    /\ toolMessages = << >>
    /\ reads_ok = 0
    /\ script = 0
    /\ raised = ""
    /\ loopExit = "running"
    /\ finalizeResponded = FALSE
    /\ ttsItem = << >>
    /\ audio_files = {}
    /\ ttsErrors = << >>
    /\ seen = [status |-> "PENDING", phase |-> "PENDING",
               result |-> FALSE, error |-> FALSE, warnings |-> << >>]
    /\ escaped = ""

\* ------------------------------------------------- process_briefing: start
\* job.status = PROCESSING; phase = AGENT; run_agent -> _agent_loop starts
StartProcessing ==
    /\ pc = "created"
    /\ status' = "PROCESSING"
    /\ phase' = "AGENT"
    /\ errors' = << >>
    /\ turn' = 0
    /\ total_tokens' = 0
    /\ pc' = "loop"
    /\ UNCHANGED << articles_read, result, error, completed_at,
                    jobErrors, budget_exceeded, modelCalls, toolMessages, reads_ok, toolCalls, script,
                    raised, loopExit, finalizeResponded, ttsVars, seen, escaped >>
    /\ UNCHANGED serviceVars

\* ------------------------------------------------------------ _agent_loop
\* mutant: the loop runs one turn too many
TurnsLeftOffByOne(t) == t <= agent_max_turns

\* for turn in range(settings.agent_max_turns)
TurnsLeft(t) == t < agent_max_turns

\* budget_exceeded = total_tokens > settings.agent_max_tokens
BudgetExceeded(tokens) == tokens > agent_max_tokens

\* mutant: the exhausted loop raises a generic error
ExhaustedErrorGeneric == "APIError"

\* raise AgentTimeoutError(...) after the for loop
ExhaustedError == "AgentTimeoutError"

\* top of the loop body: budget check, finalize-now message, model call
\* (the call is given the whole transcript; the tool tasks of the turn before
\* are no longer referenced)
IssueModelCall ==
    /\ pc = "loop"
    /\ TurnsLeft(turn)
    /\ budget_exceeded' = BudgetExceeded(total_tokens)
    /\ modelCalls' = modelCalls + 1
    /\ toolCalls' = << >>
    /\ toolMessages' = << >>
    /\ pc' = "await_llm"
    /\ UNCHANGED << jobVars, errors, turn, total_tokens, reads_ok, script,
                    raised, loopExit, finalizeResponded, ttsVars, seen, escaped >>
    /\ UNCHANGED serviceVars

\* the for loop ran out of turns
TurnsExhausted ==
    /\ pc = "loop"
    /\ ~TurnsLeft(turn)
    /\ raised' = ExhaustedError
    /\ loopExit' = "exhausted"
    /\ toolCalls' = << >>
    /\ pc' = "agent_except"
    /\ UNCHANGED << jobVars, errors, turn, total_tokens, budget_exceeded,
                    modelCalls, toolMessages, reads_ok, finalizeResponded,
                    script, ttsVars, seen, escaped >>
    /\ UNCHANGED serviceVars

\* bookkeeping common to every response of the model
Responded(u) ==
    /\ total_tokens' = total_tokens + u
    /\ finalizeResponded' = (finalizeResponded \/ budget_exceeded)

\* a tool task that has not returned
NoToolResult == [of |-> 0, out |-> ""]

\* the string execute_tool returns for the call with this id: the adapter's
\* text for that call, which is its sentinel text when `out` is an incident
ToolResult(id, out) == [of |-> id, out |-> out]

\* choice.message.tool_calls is non-empty and every arguments string parses
\* (with tool_choice="none" the provider returns no tool calls)
RespondToolCalls(calls, u) ==
    /\ pc = "await_llm"
    /\ ~budget_exceeded
    /\ Responded(u)
    /\ toolCalls' = [i \in DOMAIN calls |->
                        [id |-> i, name |-> calls[i].name, args |-> calls[i].args,
                         st |-> "pending", result |-> NoToolResult, rank |-> 0]]
    /\ pc' = "await_tools"
    /\ UNCHANGED << jobVars, errors, turn, budget_exceeded, modelCalls, toolMessages, reads_ok, script,
                    raised, loopExit, ttsVars, seen, escaped >>
    /\ UNCHANGED serviceVars

\* tool calls whose arguments string is not JSON: json.loads raises
RespondBadToolJson(u) ==
    /\ pc = "await_llm"
    /\ ~budget_exceeded
    /\ Responded(u)
    /\ raised' = "JSONDecodeError"
    /\ loopExit' = "raised"
    /\ pc' = "agent_except"
    /\ UNCHANGED << jobVars, errors, turn, budget_exceeded, modelCalls, toolMessages, reads_ok,
                    toolCalls, script, ttsVars, seen, escaped >>
    /\ UNCHANGED serviceVars

\* finish_reason == "stop" with content that validates as a BriefingScript
RespondFinal(n, u) ==
    /\ pc = "await_llm"
    /\ Responded(u)
    /\ script' = n
    /\ loopExit' = "returned"
    /\ pc' = "agent_return"
    /\ UNCHANGED << jobVars, errors, turn, budget_exceeded, modelCalls, toolMessages, reads_ok,
                    toolCalls, raised, ttsVars, seen, escaped >>
    /\ UNCHANGED serviceVars

\* mutant: an unparsable answer is logged and the model is asked again
RespondUnparsableRetries(u) ==
    /\ pc = "await_llm"
    /\ Responded(u)
    /\ raised' = "ValidationError"
    /\ turn' = turn + 1
    /\ pc' = "loop"
    /\ UNCHANGED << jobVars, errors, budget_exceeded, modelCalls, toolMessages,
                    reads_ok, toolCalls, script, loopExit, ttsVars, seen, escaped >>
    /\ UNCHANGED serviceVars

\* finish_reason == "stop" with content model_validate_json rejects
RespondUnparsable(u) ==
    /\ pc = "await_llm"
    /\ Responded(u)
    /\ raised' = "ValidationError"
    /\ loopExit' = "raised"
    /\ pc' = "agent_except"
    /\ UNCHANGED << jobVars, errors, turn, budget_exceeded, modelCalls, toolMessages, reads_ok,
                    toolCalls, script, ttsVars, seen, escaped >>
    /\ UNCHANGED serviceVars

\* mutant: the response is dropped without using up a turn
RespondNonStopKeepsTurn(u) ==
    /\ pc = "await_llm"
    /\ Responded(u)
    /\ turn' = turn
    /\ pc' = "loop"
    /\ UNCHANGED << jobVars, errors, budget_exceeded, modelCalls, toolMessages, reads_ok, toolCalls,
                    script, raised, loopExit, ttsVars, seen, escaped >>
    /\ UNCHANGED serviceVars

\* no tool calls, and finish_reason != "stop" or empty content: next turn
RespondNonStop(u) ==
    /\ pc = "await_llm"
    /\ Responded(u)
    /\ turn' = turn + 1
    /\ pc' = "loop"
    /\ UNCHANGED << jobVars, errors, budget_exceeded, modelCalls, toolMessages, reads_ok, toolCalls,
                    script, raised, loopExit, ttsVars, seen, escaped >>
    /\ UNCHANGED serviceVars

\* client.chat.completions.create raises
ModelCallFails ==
    /\ pc = "await_llm"
    /\ raised' = "APIError"
    /\ loopExit' = "raised"
    /\ pc' = "agent_except"
    /\ UNCHANGED << jobVars, errors, loopVars, script, ttsVars, seen, escaped >>
    /\ UNCHANGED serviceVars

\* ------------------------------------------------------------ execute_tool
\* execute_tool up to its first await: "running" when the call reached its
\* adapter, "raised" when url[:80] raised TypeError on a null url
Started(call) ==
    IF call.name = "read_url" /\ call.args = "null_url"
    THEN [call EXCEPT !.st = "raised"]
    ELSE [call EXCEPT !.st = "running"]

\* job.progress.articles_read += 1, which follows url[:80]
CountsAsRead(call) == call.name = "read_url" /\ call.args = "valid"

\* asyncio.gather starts its tasks back to back, in order, before any other
\* callback of the event loop runs: each runs execute_tool to its first await
LaunchTools ==
    /\ pc = "await_tools"
    /\ toolCalls # << >>
    /\ \A i \in DOMAIN toolCalls : toolCalls[i].st = "pending"
    /\ toolCalls' = [i \in DOMAIN toolCalls |-> Started(toolCalls[i])]
    /\ articles_read' = articles_read +
            Cardinality({i \in DOMAIN toolCalls : CountsAsRead(toolCalls[i])})
    /\ UNCHANGED << status, phase, result, error, completed_at,
                    jobErrors, pc, errors, turn, total_tokens, budget_exceeded,
                    modelCalls, toolMessages, reads_ok, script, raised, loopExit, finalizeResponded,
                    ttsVars, seen, escaped >>
    /\ UNCHANGED serviceVars

ToolOutcomes(name) == IF name = "search_hn" THEN SearchOutcomes ELSE ReadOutcomes
ToolSource(name) == IF name = "search_hn" THEN "tools.search_hn" ELSE "tools.read_url"

\* the adapter returns (result, error): the rest of execute_tool.  A task
\* that gather no longer waits for (a sibling raised) still runs to its end.
FinishTool(i, out) ==
    /\ pc \in {"await_tools", "finished"}
    /\ i \in DOMAIN toolCalls
    /\ toolCalls[i].st = "running"
    /\ out \in ToolOutcomes(toolCalls[i].name)
    /\ out # "ok" => Len(errors) < MaxIncidents
    /\ toolCalls' = [toolCalls EXCEPT
            ![i].st = "done",
            ![i].result = ToolResult(toolCalls[i].id, out),
            ![i].rank = 1 + Cardinality({j \in DOMAIN toolCalls :
                                            toolCalls[j].st = "done"})]
    /\ reads_ok' = IF toolCalls[i].name = "read_url" /\ out = "ok"
                   THEN reads_ok + 1 ELSE reads_ok
    /\ errors' = IF out = "ok" THEN errors
                 ELSE Append(errors, BriefingError(out, "RECOVERABLE",
                                         ToolSource(toolCalls[i].name), TRUE))
    /\ UNCHANGED << status, phase, articles_read, result, error, completed_at,
                    jobErrors, pc, turn, total_tokens, budget_exceeded,
                    modelCalls, toolMessages, script, raised, loopExit, finalizeResponded,
                    ttsVars, seen, escaped >>
    /\ UNCHANGED serviceVars

\* mutant: the results come back in the order the tasks completed
GatherResultsAsCompleted(tasks) ==
    [k \in DOMAIN tasks |->
        tasks[CHOOSE i \in DOMAIN tasks : tasks[i].rank = k].result]

\* `results` of asyncio.gather: in the order of the awaitables passed in,
\* whatever order they completed in
GatherResults(tasks) == [k \in DOMAIN tasks |-> tasks[k].result]

\* for (tc_id, _, _), result in zip(tool_tasks, results): messages.append(...)
ToolMessages(tasks, results) ==
    [k \in DOMAIN tasks |->
        [role |-> "tool", tool_call_id |-> tasks[k].id, content |-> results[k]]]

\* asyncio.gather returns: every task is done; the results are appended to
\* the transcript and the loop continues with the next turn
GatherReturns ==
    /\ pc = "await_tools"
    /\ \A i \in DOMAIN toolCalls : toolCalls[i].st = "done"
    /\ toolMessages' = ToolMessages(toolCalls, GatherResults(toolCalls))
    /\ turn' = turn + 1
    /\ pc' = "loop"
    /\ UNCHANGED << jobVars, errors, total_tokens, budget_exceeded, modelCalls,
                    toolCalls, reads_ok,
                    script, raised, loopExit, finalizeResponded, ttsVars, seen,
                    escaped >>
    /\ UNCHANGED serviceVars

\* asyncio.gather (return_exceptions=False) propagates the first exception
\* of a task to _agent_loop; the other tasks are not cancelled
GatherRaises ==
    /\ pc = "await_tools"
    /\ \A i \in DOMAIN toolCalls : toolCalls[i].st # "pending"
    /\ \E i \in DOMAIN toolCalls : toolCalls[i].st = "raised"
    /\ raised' = "TypeError"
    /\ loopExit' = "raised"
    /\ pc' = "agent_except"
    /\ UNCHANGED << jobVars, errors, loopVars, script, ttsVars, seen, escaped >>
    /\ UNCHANGED serviceVars

\* asyncio.wait_for: the deadline expires while _agent_loop is suspended;
\* the loop and the tool tasks it waits for are cancelled
AgentTimeout ==
    /\ pc \in {"await_llm", "await_tools"}
    /\ toolCalls' = [i \in DOMAIN toolCalls |->
                        IF toolCalls[i].st \in {"pending", "running"}
                        THEN [toolCalls[i] EXCEPT !.st = "cancelled"]
                        ELSE toolCalls[i]]
    /\ raised' = "TimeoutError"
    /\ loopExit' = "timeout"
    /\ pc' = "agent_except"
    /\ UNCHANGED << jobVars, errors, turn, total_tokens, budget_exceeded,
                    modelCalls, toolMessages, reads_ok, script, finalizeResponded, ttsVars, seen,
                    escaped >>
    /\ UNCHANGED serviceVars

\* -------------------------------------------------------------- run_agent
\* mutant: the deadline's expiry is reported by the generic clause
AgentErrorCodeNoTimeout(exc) ==
    IF exc = "JSONDecodeError" THEN "agent_bad_output"
    ELSE "agent_error"

\* the code of the fatal incident run_agent builds for an exception
AgentErrorCode(exc) ==
    IF exc = "TimeoutError" THEN "agent_timeout"
    ELSE IF exc = "JSONDecodeError" THEN "agent_bad_output"
    ELSE "agent_error"

\* the context of that incident; n is job.progress.articles_read
AgentErrorContext(exc, n) ==
    IF exc = "TimeoutError" THEN [articles_read |-> n]
    ELSE IF exc = "JSONDecodeError" THEN [parse_error |-> exc]
    ELSE [exception_type |-> exc]

\* BriefingError(code=..., severity=FATAL, source="agent", context=...)
AgentFatal(exc, n) ==
    [code |-> AgentErrorCode(exc), message |-> AgentErrorCode(exc),
     severity |-> "FATAL", source |-> "agent",
     recovered |-> FALSE, context |-> AgentErrorContext(exc, n)]

\* mutant: the except clauses of run_agent record the incident and do not
\* raise: the speech phase starts
RunAgentFailsGoesOn ==
    /\ pc = "agent_except"
    /\ jobErrors' = Extend(jobErrors, errors \o << AgentFatal(raised, articles_read) >>)
    /\ turn' = 0
    /\ total_tokens' = 0
    /\ budget_exceeded' = FALSE
    /\ modelCalls' = 0
    /\ finalizeResponded' = FALSE
    /\ toolMessages' = << >>
    /\ pc' = "tts_start"
    /\ UNCHANGED << status, phase, articles_read, result, error,
                    completed_at, errors, toolCalls, reads_ok, script, raised,
                    loopExit, ttsVars, seen, escaped >>
    /\ UNCHANGED serviceVars

\* an except clause of run_agent: job.errors.extend([*errors, error]); raise
\* (the loop's frame is gone: its locals and counters return to their initial values)
RunAgentFails ==
    /\ pc = "agent_except"
    /\ jobErrors' = Extend(jobErrors, errors \o << AgentFatal(raised, articles_read) >>)
    /\ turn' = 0
    /\ total_tokens' = 0
    /\ budget_exceeded' = FALSE
    /\ modelCalls' = 0
    /\ finalizeResponded' = FALSE
    /\ toolMessages' = << >>
    /\ pc' = "pb_except"
    /\ UNCHANGED << status, phase, articles_read, result, error,
                    completed_at, errors, toolCalls, reads_ok, script, raised,
                    loopExit, ttsVars, seen, escaped >>
    /\ UNCHANGED serviceVars

\* job.errors.extend(errors); return script
RunAgentReturns ==
    /\ pc = "agent_return"
    /\ jobErrors' = Extend(jobErrors, errors)
    /\ turn' = 0
    /\ total_tokens' = 0
    /\ budget_exceeded' = FALSE
    /\ modelCalls' = 0
    /\ finalizeResponded' = FALSE
    /\ toolMessages' = << >>
    /\ pc' = "tts_start"
    /\ UNCHANGED << status, phase, articles_read, result, error,
                    completed_at, errors, toolCalls, reads_ok, script, raised,
                    loopExit, ttsVars, seen, escaped >>
    /\ UNCHANGED serviceVars

\* ------------------------------------------------------ generate_all_audio
\* @retry(stop=stop_after_attempt(2), ...)
StopAfterAttempt == 2

\* what the speech provider answers to the 1st, 2nd, ... request for an item
TtsProvider == [1..ProviderTries -> {"ok", "fail"}]

\* the outcome of a future: how it ended, the number of requests made and
\* what the provider answered to each
Attempted(st, answers, attempt) ==
    [st |-> st, attempts |-> attempt, heard |-> SubSeq(answers, 1, attempt)]

\* mutant: the request is not retried
tts_one_segment_once(answers, attempt) ==
    Attempted(IF answers[attempt] = "ok" THEN "ok" ELSE "failed", answers, attempt)

\* tts_one_segment under its retry decorator, from attempt number `attempt`
RECURSIVE tts_one_segment(_, _)
tts_one_segment(answers, attempt) ==
    IF answers[attempt] = "ok" THEN Attempted("ok", answers, attempt)
    ELSE IF attempt >= StopAfterAttempt THEN Attempted("failed", answers, attempt)
    ELSE tts_one_segment(answers, attempt + 1)

Positions(n) == 0..(n - 1)

\* mutant: the job is marked COMPLETED before the audio is generated
StartTTSMarksCompleted ==
    /\ pc = "tts_start"
    /\ phase' = "TTS"
    /\ status' = "COMPLETED"
    /\ ttsItem' = [i \in Positions(script) |-> [st |-> "submitted", attempts |-> 0, heard |-> << >>]]
    /\ audio_files' = {}
    /\ ttsErrors' = << >>
    /\ pc' = "tts_pool"
    /\ UNCHANGED << articles_read, result, error, completed_at, jobErrors,
                    errors, loopVars, script, raised, loopExit, seen, escaped >>
    /\ UNCHANGED serviceVars

\* phase = TTS; one future per article is submitted to the pool
StartTTS ==
    /\ pc = "tts_start"
    /\ phase' = "TTS"
    /\ ttsItem' = [i \in Positions(script) |-> [st |-> "submitted", attempts |-> 0, heard |-> << >>]]
    /\ audio_files' = {}
    /\ ttsErrors' = << >>
    /\ pc' = "tts_pool"
    /\ UNCHANGED << status, articles_read, result, error,
                    completed_at, jobErrors, errors, loopVars, script, raised,
                    loopExit, seen, escaped >>
    /\ UNCHANGED serviceVars

\* one iteration of `for future in cf.as_completed(futures)`: the future of
\* position i has completed; save its audio or record a tts_failed incident
CollectFuture(i, answers) ==
    /\ pc = "tts_pool"
    /\ i \in DOMAIN ttsItem
    /\ ttsItem[i].st = "submitted"
    /\ LET done == tts_one_segment(answers, 1) IN
        /\ ttsItem' = [ttsItem EXCEPT ![i] = done]
        /\ IF done.st = "ok"
           THEN /\ audio_files' = audio_files \cup {i}
                /\ UNCHANGED ttsErrors
           ELSE /\ ttsErrors' = Append(ttsErrors,
                        [code |-> "tts_failed", severity |-> "DEGRADED",
                         source |-> "tts", recovered |-> TRUE, index |-> i])
                /\ UNCHANGED audio_files
    /\ UNCHANGED << jobVars, pc, errors, loopVars, script, raised, loopExit,
                    seen, escaped >>
    /\ UNCHANGED serviceVars

\* mutant: exactly half counts as a majority failure
ThresholdErrorLax(succeeded, total) ==
    IF succeeded = 0 THEN "TTSCompleteFailureError"
    ELSE IF 2 * succeeded <= total THEN "TTSMajorityFailureError"
    ELSE ""

\* the success-rate check: the exception raised for `succeeded` of `total`
ThresholdError(succeeded, total) ==
    IF succeeded = 0 THEN "TTSCompleteFailureError"
    ELSE IF 2 * succeeded < total THEN "TTSMajorityFailureError"
    ELSE ""

\* the incidents of the fan-out as job.errors gets them: the message names
\* the position of the article
TtsBriefingErrors(errs) ==
    [k \in 1..Len(errs) |->
        [BriefingError(errs[k].code, errs[k].severity, errs[k].source,
                       errs[k].recovered)
            EXCEPT !.message = << "Audio generation failed for article", errs[k].index >>]]

\* mutant: the success-rate check comes first, and a threshold error leaves
\* the incidents of the fan-out out of job.errors
FinishTTSRaisesFirst ==
    /\ pc = "tts_pool"
    /\ \A i \in DOMAIN ttsItem : ttsItem[i].st # "submitted"
    /\ LET exc == ThresholdError(Cardinality(audio_files), script) IN
        /\ jobErrors' = IF exc = "" THEN Extend(jobErrors, TtsBriefingErrors(ttsErrors))
                        ELSE jobErrors
        /\ raised' = exc
        /\ pc' = IF exc = "" THEN "build" ELSE "pb_except"
    /\ UNCHANGED << status, phase, articles_read, result, error,
                    completed_at, errors, loopVars, script, loopExit, ttsVars,
                    seen, escaped >>
    /\ UNCHANGED serviceVars

\* job.errors.extend(errors), then the success-rate check
FinishTTS ==
    /\ pc = "tts_pool"
    /\ \A i \in DOMAIN ttsItem : ttsItem[i].st # "submitted"
    /\ jobErrors' = Extend(jobErrors, TtsBriefingErrors(ttsErrors))
    /\ LET exc == ThresholdError(Cardinality(audio_files), script) IN
        /\ raised' = exc
        /\ pc' = IF exc = "" THEN "build" ELSE "pb_except"
    /\ UNCHANGED << status, phase, articles_read, result, error,
                    completed_at, errors, loopVars, script, loopExit, ttsVars,
                    seen, escaped >>
    /\ UNCHANGED serviceVars

\* ------------------------------------------------ process_briefing: result
\* mutant: every article gets an audio_url
AudioUrlsAll(n, files) == Positions(n)

\* the positions that get an audio_url: `if i in audio_files`
AudioUrls(n, files) == { i \in Positions(n) : i \in files }

\* audio_url per article; status = COMPLETED; phase = DONE
MarkCompleted ==
    /\ pc = "build"
    /\ status' = "COMPLETED"
    /\ phase' = "DONE"
    /\ pc' = "build_result"
    /\ UNCHANGED << articles_read, result, error, completed_at,
                    jobErrors, errors, loopVars, script, raised, loopExit,
                    ttsVars, seen, escaped >>
    /\ UNCHANGED serviceVars

\* mutant: the result is never stored
SetResultForgets ==
    /\ pc = "build_result"
    /\ completed_at' = TRUE
    /\ pc' = "finished"
    /\ UNCHANGED << status, phase, articles_read, result, error,
                    jobErrors, errors, loopVars, script, raised, loopExit,
                    ttsVars, seen, escaped >>
    /\ UNCHANGED serviceVars

\* job.result = JobResult(...); job.completed_at = now
SetResult ==
    /\ pc = "build_result"
    /\ result' = JobResult(script, AudioUrls(script, audio_files), audio_files)
    /\ completed_at' = TRUE
    /\ pc' = "finished"
    /\ UNCHANGED << status, phase, articles_read, error,
                    jobErrors, errors, loopVars, script, raised, loopExit,
                    ttsVars, seen, escaped >>
    /\ UNCHANGED serviceVars

\* -------------------------------------------------------- summarize_errors
\* list(ErrorSeverity).index(severity)
SeverityIndex(severity) ==
    CHOOSE k \in DOMAIN ErrorSeverity : ErrorSeverity[k] = severity

\* the keys of by_source, in the order a dict keeps them: first insertion
BySourceKeys(errs) ==
    LET first == { i \in DOMAIN errs :
                     \A j \in 1..(i - 1) : errs[j].source # errs[i].source }
    IN  [k \in 1..Cardinality(first) |->
            errs[CHOOSE i \in first :
                     Cardinality({ j \in first : j < i }) = k - 1].source]

\* by_source[source]: the positions of its incidents in `errors`
BySource(errs, source) == { k \in DOMAIN errs : errs[k].source = source }

\* mutant: among the incidents of maximal severity the last one is taken
WorstLast(errs, group) ==
    CHOOSE k \in group :
        /\ \A j \in group :
              SeverityIndex(errs[j].severity) <= SeverityIndex(errs[k].severity)
        /\ \A j \in group :
              j > k => SeverityIndex(errs[j].severity) < SeverityIndex(errs[k].severity)

\* max(errs, key=...): the position of the first incident of the group whose
\* key is maximal (max returns the first maximal item it meets)
Worst(errs, group) ==
    CHOOSE k \in group :
        /\ \A j \in group :
              SeverityIndex(errs[j].severity) <= SeverityIndex(errs[k].severity)
        /\ \A j \in group :
              j < k => SeverityIndex(errs[j].severity) < SeverityIndex(errs[k].severity)

\* ErrorDetail(component=source, count=len(errs), sample=worst.message,
\*             severity=worst.severity.value)
ErrorDetail(errs, source) ==
    LET group == BySource(errs, source)
        worst == errs[Worst(errs, group)]
    IN  [component |-> source, count |-> Cardinality(group),
         sample |-> worst.message, severity |-> worst.severity]

summarize_errors(errs) ==
    LET keys == BySourceKeys(errs)
    IN  [k \in DOMAIN keys |-> ErrorDetail(errs, keys[k])]

\* ------------------------------------------------ process_briefing: except
\* mutant: process_briefing has no `except Exception` clause
CatchClauseNoGeneric(exc) ==
    IF exc \in {"AgentTimeoutError", "TimeoutError"} THEN "agent"
    ELSE IF exc \in {"TTSCompleteFailureError", "TTSMajorityFailureError"} THEN "tts"
    ELSE "uncaught"

\* which except clause of process_briefing takes the exception
CatchClause(exc) ==
    IF exc \in {"AgentTimeoutError", "TimeoutError"} THEN "agent"
    ELSE IF exc \in {"TTSCompleteFailureError", "TTSMajorityFailureError"} THEN "tts"
    ELSE IF exc \in Exceptions THEN "internal"
    ELSE "uncaught"

\* mutant: a speech failure is reported by the generic code
FailureCodeNoTts(clause, errs) ==
    IF clause = "agent"
    THEN IF errs # << >> THEN errs[Len(errs)].code ELSE "agent_error"
    ELSE "internal_error"

\* the code of the JobError each clause builds
FailureCode(clause, errs) ==
    IF clause = "agent"
    THEN IF errs # << >> THEN errs[Len(errs)].code ELSE "agent_error"
    ELSE IF clause = "tts" THEN "tts_failure"
    ELSE "internal_error"

\* mutant: the generic clause reports str(e) like the other clauses
FailureMessagePlain(clause, exc) == [text |-> "str(e)", type |-> ""]

\* message=str(e) in the agent and speech clauses, and
\* message=f"Unexpected error: {type(e).__name__}: {e!s}" in the generic one
FailureMessage(clause, exc) ==
    IF clause = "internal" THEN [text |-> "Unexpected error", type |-> exc]
    ELSE [text |-> "str(e)", type |-> ""]

\* mutant: the generic clause sets the status and forgets job.error
FailureErrorUnset(clause, errs, exc) ==
    IF clause = "internal" THEN NoError
    ELSE JobError(FailureCode(clause, errs), FailureMessage(clause, exc),
                  summarize_errors(errs))

\* the JobError a clause stores in job.error
FailureError(clause, errs, exc) ==
    JobError(FailureCode(clause, errs), FailureMessage(clause, exc),
             summarize_errors(errs))

\* mutant: a failed job gets a completion timestamp
HandleFailureStamps ==
    /\ pc = "pb_except"
    /\ LET clause == CatchClause(raised) IN
        IF clause = "uncaught"
        THEN /\ escaped' = raised
             /\ UNCHANGED << status, error >>
        ELSE /\ status' = "FAILED"
             /\ error' = FailureError(clause, jobErrors, raised)
             /\ UNCHANGED escaped
    /\ pc' = "finished"
    /\ completed_at' = TRUE
    /\ UNCHANGED << phase, articles_read, result,
                    jobErrors, errors, loopVars, script, raised, loopExit,
                    ttsVars, seen >>
    /\ UNCHANGED serviceVars

\* job.status = FAILED; job.error = JobError(...)
HandleFailure ==
    /\ pc = "pb_except"
    /\ LET clause == CatchClause(raised) IN
        IF clause = "uncaught"
        THEN /\ escaped' = raised
             /\ UNCHANGED << status, error >>
        ELSE /\ status' = "FAILED"
             /\ error' = FailureError(clause, jobErrors, raised)
             /\ UNCHANGED escaped
    /\ pc' = "finished"
    /\ UNCHANGED << phase, articles_read, result, completed_at,
                    jobErrors, errors, loopVars, script, raised, loopExit,
                    ttsVars, seen >>
    /\ UNCHANGED serviceVars

\* ------------------------------------------------------------ status poll
\* mutant: the speech fan-out awaits its futures and yields the event loop
SuspensionPointsInPool == {"created", "await_llm", "await_tools", "tts_pool", "finished"}

\* process_briefing is suspended at an await, or has not started, or is over
SuspensionPoints == {"created", "await_llm", "await_tools", "finished"}

Observable == pc \in SuspensionPoints

\* mutant: every incident is summarised into the warnings
RecoveredAll(errs) == errs

\* [e for e in job.errors if e.recovered]
Recovered(errs) == SelectSeq(errs, LAMBDA e : e.recovered)

\* get_briefing_status: runs on the event loop between two steps of the job
Poll ==
    /\ Observable
    /\ seen' = [status |-> status, phase |-> phase,
                result |-> result.set, error |-> error.set,
                warnings |-> summarize_errors(Recovered(jobErrors))]
    /\ UNCHANGED << jobVars, pc, errors, loopVars, script, raised, loopExit,
                    ttsVars, escaped >>
    /\ UNCHANGED serviceVars

\* ---------------------------------------------------------------- TTLCache
\* A cache is the sequence of its entries, least recently used first.
\* mutant: an entry expires a tick before its time
CacheHasEarly(cache, key, t) ==
    \E i \in DOMAIN cache : cache[i].key = key /\ t + 1 < cache[i].expires

\* `key in cache`: an entry that has not expired
CacheHas(cache, key, t) ==
    \E i \in DOMAIN cache : cache[i].key = key /\ t < cache[i].expires

\* cache[key], for a key the cache has
CacheValue(cache, key) ==
    cache[CHOOSE i \in DOMAIN cache : cache[i].key = key].value

\* cache[key] marks the entry as the most recently used
CacheTouch(cache, key) ==
    SelectSeq(cache, LAMBDA e : e.key # key) \o
    SelectSeq(cache, LAMBDA e : e.key = key)

\* cache[key] = value: expired entries go, then the least recently used ones
\* while the cache is full, and the new entry is the most recently used
CachePut(cache, key, value, t, ttl, maxsize) ==
    LET live == SelectSeq(cache, LAMBDA e : t < e.expires /\ e.key # key)
        kept == IF Len(live) >= maxsize
                THEN SubSeq(live, Len(live) - maxsize + 2, Len(live))
                ELSE live
    IN  Append(kept, [key |-> key, value |-> value, expires |-> t + ttl])

\* ------------------------------------------------------------- tool adapters
NoCall == [fn |-> "none"]

\* the provider was not asked
NoResponse == [kind |-> "none"]

\* the adapter returned no incident: None
NoIncident == [code |-> "None"]

\* a query that is JSON null, and a url that is a JSON array
NullQuery == -1
UnhashableUrl == -1

\* settings.max_search_results: the configured maximum of listed results
max_search_results == 2

\* the arguments the model can pass to search_hn: query 0 is the empty
\* string, query 1 a string of words
Queries == {NullQuery, 0, 1}
Sorts == {"relevance", "date", "points"}
Limits == (-1)..(max_search_results + 1)

\* what the search provider does with a request: the points of the hits it
\* returns (0 when a hit has none), in its order, or the exception of the client
HitLists == UNION { [1..n -> 0..MaxPoints] : n \in 0..MaxHits }
SearchResponses ==
    { [kind |-> "hits", hits |-> h] : h \in HitLists } \cup
    { [kind |-> k, hits |-> << >>] :
        k \in {"TimeoutException", "HTTPStatusError", "Exception"} }

\* min(a, b)
Min(a, b) == IF a <= b THEN a ELSE b

\* len(seq[:k]): a negative k counts from the end
SliceLen(n, k) == IF k >= 0 THEN Min(n, k) ELSE IF n + k > 0 THEN n + k ELSE 0

\* hits.sort(key=points or 0, reverse=True): by decreasing points, hits of
\* equal points in the order they had (the sort is stable)
SortByPoints(hits) ==
    [k \in DOMAIN hits |->
        hits[CHOOSE i \in DOMAIN hits :
                 Cardinality({ j \in DOMAIN hits :
                                 \/ hits[j] > hits[i]
                                 \/ (hits[j] = hits[i] /\ j < i) }) = k - 1]]

\* endpoint = "search" if sort == "relevance" else "search_by_date", and
\* "search" when the query is empty
Endpoint(query, sort) ==
    IF query # 0 /\ sort # "relevance" THEN "search_by_date" ELSE "search"

\* if sort == "points": hits.sort(...)
Ranked(hits, sort) == IF sort = "points" THEN SortByPoints(hits) ELSE hits

\* hits[: min(limit, max_results)]
Listed(hits, limit) ==
    SubSeq(hits, 1, SliceLen(Len(hits), Min(limit, max_search_results)))

\* the incident of an adapter
AdapterIncident(code, source) == BriefingError(code, "RECOVERABLE", source, TRUE)

\* mutant: zero hits are reported as an unexpected failure
NoHitsUnexpected ==
    [content |-> [kind |-> "[ERROR]"],
     err |-> AdapterIncident("hn_unknown_error", "tools.search_hn")]

\* if not hits: return msg, BriefingError(code="hn_no_results", ...)
NoHits ==
    [content |-> [kind |-> "[NO RESULTS]"],
     err |-> AdapterIncident("hn_no_results", "tools.search_hn")]

\* what the adapters store: `_hn_cache[cache_key] = result` and
\* `_url_cache[url] = truncated` stand on the path that returns no incident
CacheableAlways(ret) == TRUE

Cacheable(ret) == ret.err = NoIncident

\* the body of search_hn's try block and its except clauses: what is
\* returned for the provider's response
SearchReturn(query, sort, limit, resp) ==
    IF query = NullQuery
    THEN [content |-> [kind |-> "[ERROR]"],
          err |-> AdapterIncident("hn_unknown_error", "tools.search_hn")]
    ELSE IF resp.kind = "TimeoutException"
    THEN [content |-> [kind |-> "[TIMEOUT]"],
          err |-> AdapterIncident("hn_timeout", "tools.search_hn")]
    ELSE IF resp.kind = "HTTPStatusError"
    THEN [content |-> [kind |-> "[ERROR]"],
          err |-> AdapterIncident("hn_http_error", "tools.search_hn")]
    ELSE IF resp.kind = "Exception"
    THEN [content |-> [kind |-> "[ERROR]"],
          err |-> AdapterIncident("hn_unknown_error", "tools.search_hn")]
    ELSE IF resp.hits = << >> THEN NoHits
    ELSE [content |-> [kind |-> "Found", found |-> Len(resp.hits),
                       entries |-> Listed(Ranked(resp.hits, sort), limit)],
          err |-> NoIncident]

\* the incident the call before this one returned, if it was a call of the
\* same adapter with the same key
PriorIncident(fn, key) ==
    IF adapterCall.fn = fn /\ adapterCall.key = key
    THEN adapterCall.err
    ELSE NoIncident

\* search_hn(query, sort, limit), the provider answering `resp` if asked
search_hn(query, sort, limit, resp) ==
    LET cache_key == << query, sort, limit >> IN
    /\ IF CacheHas(hn_cache, cache_key, now)
       THEN /\ adapterCall' = [fn |-> "search_hn", key |-> cache_key,
                               at |-> now, network |-> FALSE, endpoint |-> "",
                               response |-> NoResponse,
                               content |-> CacheValue(hn_cache, cache_key),
                               err |-> NoIncident, raised |-> "",
                               prior |-> PriorIncident("search_hn", cache_key)]
            /\ hn_cache' = CacheTouch(hn_cache, cache_key)
       ELSE LET ret == SearchReturn(query, sort, limit, resp) IN
            /\ adapterCall' = [fn |-> "search_hn", key |-> cache_key,
                               at |-> now, network |-> query # NullQuery,
                               endpoint |-> IF query = NullQuery THEN ""
                                            ELSE Endpoint(query, sort),
                               response |-> IF query = NullQuery THEN NoResponse
                                            ELSE resp,
                               content |-> ret.content, err |-> ret.err,
                               raised |-> "",
                               prior |-> PriorIncident("search_hn", cache_key)]
            /\ hn_cache' = IF Cacheable(ret)
                           THEN CachePut(hn_cache, cache_key, ret.content, now,
                                         hn_cache_ttl, CacheSize)
                           ELSE hn_cache
    /\ UNCHANGED << pipelineVars, pair, now, registryVars, url_cache, summaryVars >>

\* the urls the model can pass to read_url
Urls == {UnhashableUrl, 1}

\* the status codes of the reader's error responses
Statuses == {403, 404, 429, 500}

\* what the reader does with a request: the text of its response, len
\* characters of page `body` of which `pad` are white space at its ends, or
\* the exception of the client
ReadResponses ==
    { r \in { [kind |-> "text", len |-> n, pad |-> w, body |-> b, status |-> 200] :
                n \in 0..MaxLen, w \in 0..1, b \in 1..2 } : r.pad <= r.len } \cup
    { [kind |-> "HTTPStatusError", len |-> 0, pad |-> 0, body |-> 0, status |-> c] :
        c \in Statuses } \cup
    { [kind |-> k, len |-> 0, pad |-> 0, body |-> 0, status |-> 0] :
        k \in {"TimeoutException", "Exception"} }

\* len(resp.text.strip())
StrippedLen(resp) == resp.len - resp.pad

\* mutant: content of exactly the least length is thin too
ThinInclusive(n) == n <= MinContentLength

\* len(content) < 100
Thin(n) == n < MinContentLength

\* mutant: the last character of the budget is cut as well
TruncatedLenShort(n) == Min(n, max_article_content_length - 1)

\* len(content[: settings.max_article_content_length])
TruncatedLen(n) == Min(n, max_article_content_length)

\* code_map.get(e.response.status_code, ("jina_http_error", ...))
JinaErrorCode(status_code) ==
    CASE status_code = 403 -> "jina_forbidden"
      [] status_code = 429 -> "jina_rate_limited"
      [] status_code = 500 -> "jina_server_error"
      [] OTHER -> "jina_http_error"

\* f"[{err_code.upper()}] ..."
Upper(code) ==
    CASE code = "jina_forbidden" -> "[JINA_FORBIDDEN]"
      [] code = "jina_rate_limited" -> "[JINA_RATE_LIMITED]"
      [] code = "jina_server_error" -> "[JINA_SERVER_ERROR]"
      [] OTHER -> "[JINA_HTTP_ERROR]"

\* the body of read_url's try block and its except clauses
ReadReturn(resp) ==
    IF resp.kind = "TimeoutException"
    THEN [content |-> [kind |-> "[TIMEOUT]"],
          err |-> AdapterIncident("jina_timeout", "tools.read_url")]
    ELSE IF resp.kind = "HTTPStatusError"
    THEN [content |-> [kind |-> Upper(JinaErrorCode(resp.status))],
          err |-> AdapterIncident(JinaErrorCode(resp.status), "tools.read_url")]
    ELSE IF resp.kind = "Exception"
    THEN [content |-> [kind |-> "[ERROR]"],
          err |-> AdapterIncident("jina_unknown_error", "tools.read_url")]
    ELSE IF Thin(StrippedLen(resp))
    THEN [content |-> [kind |-> "[THIN CONTENT]", len |-> StrippedLen(resp),
                       body |-> resp.body],
          err |-> AdapterIncident("jina_thin_content", "tools.read_url")]
    ELSE [content |-> [kind |-> "text",
                       len |-> TruncatedLen(StrippedLen(resp)),
                       body |-> resp.body],
          err |-> NoIncident]

\* read_url(url), the reader answering `resp` if asked. A url that is not
\* hashable makes `url in _url_cache` raise TypeError before the try block.
ReadUrl(url, resp) ==
    /\ IF url = UnhashableUrl
       THEN /\ adapterCall' = [fn |-> "read_url", key |-> url, at |-> now,
                               network |-> FALSE, endpoint |-> "",
                               response |-> NoResponse, content |-> [kind |-> ""],
                               err |-> NoIncident, raised |-> "TypeError",
                               prior |-> PriorIncident("read_url", url)]
            /\ url_cache' = url_cache
       ELSE IF CacheHas(url_cache, url, now)
       THEN /\ adapterCall' = [fn |-> "read_url", key |-> url, at |-> now,
                               network |-> FALSE, endpoint |-> "",
                               response |-> NoResponse,
                               content |-> CacheValue(url_cache, url),
                               err |-> NoIncident, raised |-> "",
                               prior |-> PriorIncident("read_url", url)]
            /\ url_cache' = CacheTouch(url_cache, url)
       ELSE LET ret == ReadReturn(resp) IN
            /\ adapterCall' = [fn |-> "read_url", key |-> url, at |-> now,
                               network |-> TRUE, endpoint |-> "r.jina.ai",
                               response |-> resp,
                               content |-> ret.content, err |-> ret.err,
                               raised |-> "",
                               prior |-> PriorIncident("read_url", url)]
            /\ url_cache' = IF Cacheable(ret)
                            THEN CachePut(url_cache, url, ret.content, now,
                                          url_cache_ttl, CacheSize)
                            ELSE url_cache

\* read_url called on its own: nothing else changes
read_url(url, resp) ==
    /\ ReadUrl(url, resp)
    /\ UNCHANGED << pipelineVars, pair, now, registryVars, hn_cache, summaryVars >>

\* ------------------------------------------------------------ job registry
JobIds == 1..MaxJobs

\* an id no job was created with
UnknownId == 0

\* dict.get found nothing: None
Absent == [job_id |-> UnknownId, created_at |-> 0, status |-> "None"]

NoLookup == [op |-> "none"]

\* the clock advances
Tick ==
    /\ now < MaxTime
    /\ now' = now + 1
    /\ lookup' = NoLookup
    /\ UNCHANGED << pipelineVars, pair, jobs, adapterVars, summaryVars >>

\* create_job: Job(job_id=uuid4().hex[:12], ...); _jobs[job_id] = job
create_job(id) ==
    /\ id \in JobIds \ DOMAIN jobs
    /\ jobs' = [j \in DOMAIN jobs \cup {id} |->
                    IF j = id
                    THEN [job_id |-> id, created_at |-> now, status |-> "PENDING"]
                    ELSE jobs[j]]
    /\ lookup' = NoLookup
    /\ UNCHANGED << pipelineVars, pair, now, adapterVars, summaryVars >>

\* process_briefing writes the status of a registered job
AdvanceJob(id, to) ==
    /\ id \in DOMAIN jobs
    /\ \/ jobs[id].status = "PENDING" /\ to = "PROCESSING"
       \/ jobs[id].status = "PROCESSING" /\ to \in {"COMPLETED", "FAILED"}
    /\ jobs' = [jobs EXCEPT ![id].status = to]
    /\ lookup' = NoLookup
    /\ UNCHANGED << pipelineVars, pair, now, adapterVars, summaryVars >>

\* get_job: _jobs.get(job_id)
get_job(id) ==
    /\ lookup' = [op |-> "get_job", id |-> id, before |-> jobs, at |-> now,
                  ret |-> IF id \in DOMAIN jobs THEN jobs[id] ELSE Absent]
    /\ UNCHANGED << pipelineVars, pair, now, jobs, adapterVars, summaryVars >>

\* mutant: an entry exactly as old as the window is removed too
ExpiredInclusive(created_at, t) == created_at <= t - audio_cache_ttl_hours

\* j.created_at < cutoff, with cutoff = now - timedelta(hours=ttl)
Expired(created_at, t) == created_at < t - audio_cache_ttl_hours

\* cleanup_old_jobs: del _jobs[jid] for every expired jid
cleanup_old_jobs ==
    /\ LET expired == { j \in DOMAIN jobs : Expired(jobs[j].created_at, now) }
       IN  jobs' = [j \in DOMAIN jobs \ expired |-> jobs[j]]
    /\ lookup' = [op |-> "cleanup_old_jobs", before |-> jobs, at |-> now,
                  after |-> jobs']
    /\ UNCHANGED << pipelineVars, pair, now, adapterVars, summaryVars >>

\* ------------------------------------------------- summarize_errors, called
\* the incident lists summarize_errors is called with
Messages == {"m1", "m2"}
Incidents ==
    [code : {"c"}, message : Messages, severity : { ErrorSeverity[k] : k \in DOMAIN ErrorSeverity },
     source : {"tools.read_url", "tts"}, recovered : {TRUE}]
ErrLists == UNION { [1..n -> Incidents] : n \in 0..MaxErrs }

\* a call of summarize_errors(incidents)
Summarize ==
    /\ details' = summarize_errors(incidents)
    /\ UNCHANGED << pipelineVars, pair, now, registryVars, adapterVars, incidents >>

\* ------------------------------------------------- two jobs side by side
PairCalls == 1
PairArticles == 2

PairIds == 1..2

\* Job(job_id=..., interests=..., num_articles=...) as create_job builds it,
\* and the execution of its process_briefing: where it stands (pc),
\* run_agent's local list `errors`, and the url of the read it awaits
NewJob ==
    [status |-> "PENDING", phase |-> "PENDING", articles_read |-> 0,
     result |-> FALSE, error |-> "", completed_at |-> FALSE,
     jobErrors |-> << >>,
     pc |-> "created", errors |-> << >>, url |-> 0]

\* history: an incident with the job whose call or synthesis produced it
Produced(j, incident) == [by |-> j, incident |-> incident]

\* mutant: the run_agent calls collect their incidents in one list
ErrorsListShared(j) == 1

\* `errors: list[BriefingError] = []` belongs to the run_agent call of job j,
\* which hands it to _agent_loop and to every execute_tool of that job
ErrorsList(j) == j

\* what the reader answers in the runs of two jobs
PairResponses ==
    { r \in ReadResponses :
        /\ r.body <= 1 /\ r.pad = 0
        /\ r.kind = "TimeoutException" \/ (r.kind = "text" /\ r.len = MinContentLength) }

\* process_briefing(job) starts: status, phase, run_agent's empty list, and
\* the first model call is awaited
PairStart(j) ==
    /\ pair[j].pc = "created"
    /\ pair' = [pair EXCEPT ![j].status = "PROCESSING",
                            ![j].phase = "AGENT",
                            ![j].pc = "await_llm",
                            ![ErrorsList(j)].errors = << >>]
    /\ UNCHANGED << pipelineVars, now, registryVars, adapterVars, summaryVars >>

\* the model asks for a read: execute_tool counts it and awaits read_url
PairToolCall(j, url) ==
    /\ pair[j].pc = "await_llm"
    /\ pair[j].articles_read < PairCalls
    /\ pair' = [pair EXCEPT ![j].articles_read = @ + 1,
                            ![j].url = url,
                            ![j].pc = "await_tool"]
    /\ UNCHANGED << pipelineVars, now, registryVars, adapterVars, summaryVars >>

\* read_url returns to execute_tool: `if error: errors.append(error)`, and
\* the next model call is awaited
PairToolReturns(j, resp) ==
    /\ pair[j].pc = "await_tool"
    /\ ReadUrl(pair[j].url, resp)
    /\ pair' = [pair EXCEPT ![j].pc = "await_llm",
                            ![j].url = 0,
                            ![ErrorsList(j)].errors =
                                IF adapterCall'.err = NoIncident THEN @
                                ELSE Append(@, Produced(j, adapterCall'.err))]
    /\ UNCHANGED << pipelineVars, now, registryVars, hn_cache, summaryVars >>

\* the model call raises: run_agent extends job.errors with its list and the
\* agent_error incident, and process_briefing marks the job FAILED
PairAgentFails(j) ==
    /\ pair[j].pc = "await_llm"
    /\ pair' = [pair EXCEPT
                  ![j].jobErrors =
                      Extend(@, Append(pair[ErrorsList(j)].errors,
                                       Produced(j, BriefingError("agent_error", "FATAL",
                                                                 "agent", FALSE)))),
                  ![j].status = "FAILED",
                  ![j].error = "internal_error",
                  ![j].pc = "finished"]
    /\ UNCHANGED << pipelineVars, now, registryVars, adapterVars, summaryVars >>

\* the model answers with the script: run_agent extends job.errors, the
\* speech fan-out fails for `failed` of the articles and extends job.errors,
\* and process_briefing completes the job or marks it FAILED
PairAgentReturns(j, failed) ==
    /\ pair[j].pc = "await_llm"
    /\ LET collected == Extend(pair[j].jobErrors, pair[ErrorsList(j)].errors)
           tts == [k \in 1..failed |->
                      Produced(j, BriefingError("tts_failed", "DEGRADED", "tts", TRUE))]
           exc == ThresholdError(PairArticles - failed, PairArticles)
       IN  pair' = [pair EXCEPT
                      ![j].jobErrors = Extend(collected, tts),
                      ![j].phase = IF exc = "" THEN "DONE" ELSE "TTS",
                      ![j].status = IF exc = "" THEN "COMPLETED" ELSE "FAILED",
                      ![j].result = (exc = ""),
                      ![j].completed_at = (exc = ""),
                      ![j].error = IF exc = "" THEN "" ELSE "tts_failure",
                      ![j].pc = "finished"]
    /\ UNCHANGED << pipelineVars, now, registryVars, adapterVars, summaryVars >>

\* ------------------------------------------------------------------ Init
\* the process after start-up: the job of PipelineInit, an empty registry,
\* empty caches
Init ==
    /\ PipelineInit
    /\ now = 0
    /\ jobs = << >>
    /\ lookup = NoLookup
    /\ hn_cache = << >>
    /\ url_cache = << >>
    /\ adapterCall = NoCall
    /\ incidents = << >>
    /\ details = << >>
    /\ pair = [j \in PairIds |-> NewJob]

\* one step of the agent phase: run_agent, _agent_loop and the tool tasks
AgentStep ==
    \/ StartProcessing
    \/ IssueModelCall
    \/ TurnsExhausted
    \/ \E calls \in ToolRequests, u \in Usage : RespondToolCalls(calls, u)
    \/ \E u \in Usage : RespondBadToolJson(u)
    \/ \E n \in 1..MaxArticles, u \in Usage : RespondFinal(n, u)
    \/ \E u \in Usage : RespondUnparsable(u)
    \/ \E u \in Usage : RespondNonStop(u)
    \/ ModelCallFails
    \/ LaunchTools
    \/ \E i \in 1..MaxCalls, out \in SearchOutcomes \cup ReadOutcomes : FinishTool(i, out)
    \/ GatherReturns
    \/ GatherRaises
    \/ AgentTimeout
    \/ RunAgentFails
    \/ RunAgentReturns

\* one step of the speech phase: generate_all_audio
SpeechStep ==
    \/ StartTTS
    \/ \E i \in Positions(MaxArticles), answers \in TtsProvider : CollectFuture(i, answers)
    \/ FinishTTS

\* one step of process_briefing after its phases
FinalStep ==
    \/ MarkCompleted
    \/ SetResult
    \/ HandleFailure

Next == AgentStep \/ SpeechStep \/ FinalStep \/ Poll

Spec == Init /\ [][Next]_vars

\* The agent phase on its own.  Every await of the loop is answered or cut
\* short by the wait_for deadline: the phase keeps taking steps.
AgentSpec == Init /\ [][AgentStep]_vars /\ WF_vars(AgentStep)

\* The job on its own, without the status polls.  The event loop runs
\* process_briefing whenever it can take a step, and the speech fan-out runs
\* to its end in the pool: the job keeps taking steps until it is over.
JobStep == AgentStep \/ SpeechStep \/ FinalStep

JobSpec == Init /\ [][JobStep]_vars /\ WF_vars(JobStep)

\* summarize_errors on its own, applied to every bounded incident list
SummaryInit ==
    /\ PipelineInit
    /\ now = 0
    /\ jobs = << >>
    /\ lookup = NoLookup
    /\ hn_cache = << >>
    /\ url_cache = << >>
    /\ adapterCall = NoCall
    /\ incidents \in ErrLists
    /\ details = << >>
    /\ pair = [j \in PairIds |-> NewJob]

SummarySpec == SummaryInit /\ [][Summarize]_vars

\* The job registry on its own: jobs are created, advance, are looked up and
\* swept while the clock runs.
RegistryNext ==
    \/ Tick
    \/ \E id \in JobIds : create_job(id)
    \/ \E id \in JobIds, to \in {"PROCESSING", "COMPLETED", "FAILED"} : AdvanceJob(id, to)
    \/ \E id \in JobIds \cup {UnknownId} : get_job(id)
    \/ cleanup_old_jobs

RegistrySpec == Init /\ [][RegistryNext]_vars

\* The first adapter call of the process, on empty caches, with every
\* argument and every answer of the provider.
ColdSearch(query, sort, limit, resp) ==
    /\ adapterCall = NoCall
    /\ search_hn(query, sort, limit, resp)

ColdRead(url, resp) ==
    /\ adapterCall = NoCall
    /\ read_url(url, resp)

ColdNext ==
    \/ Tick
    \/ \E query \in Queries, sort \in Sorts, limit \in Limits, resp \in SearchResponses :
          ColdSearch(query, sort, limit, resp)
    \/ \E url \in Urls, resp \in ReadResponses : ColdRead(url, resp)

ColdSpec == Init /\ [][ColdNext]_vars

\* The adapters called again and again with a few keys while the clock
\* runs: one of the two caches is in use in a behaviour.
RepeatSearchResponses ==
    { r \in SearchResponses :
        r.kind # "hits" \/ r.hits \in {<< >>, << 1 >>, << 0, 1 >>} }
RepeatReadResponses ==
    { r \in ReadResponses :
        /\ r.body <= 1
        /\ r.status \in {0, 200, 403}
        /\ r.kind # "text" \/ (r.kind = "text" /\ r.pad = 0
                                                         /\ r.len >= MinContentLength - 1
                                                         /\ r.len <= MinContentLength) }

RepeatSearch(query, resp) ==
    /\ url_cache = << >>
    /\ search_hn(query, "points", max_search_results, resp)

RepeatRead(url, resp) ==
    /\ hn_cache = << >>
    /\ read_url(url, resp)

CacheNext ==
    \/ Tick
    \/ \E query \in {NullQuery} \cup 1..MaxKeys, resp \in RepeatSearchResponses :
          RepeatSearch(query, resp)
    \/ \E url \in 1..MaxKeys, resp \in RepeatReadResponses : RepeatRead(url, resp)

CacheSpec == Init /\ [][CacheNext]_vars

\* Two jobs run on one event loop: at every step one of the two executions
\* of process_briefing goes from a suspension point to its next one.
PairNext ==
    \E j \in PairIds :
        \/ PairStart(j)
        \/ \E url \in 1..MaxKeys : PairToolCall(j, url)
        \/ \E resp \in PairResponses : PairToolReturns(j, resp)
        \/ PairAgentFails(j)
        \/ \E failed \in 0..PairArticles : PairAgentReturns(j, failed)

PairSpec == Init /\ [][PairNext]_vars

\* ================================================================ claims

\* C1: whatever the agent phase and the speech phase do (return, raise
\* AgentTimeoutError, TimeoutError, a speech threshold error or any other
\* exception), process_briefing ends with no exception propagated and with
\* job.status COMPLETED or FAILED, never PENDING or PROCESSING.
C1_EndsTerminal ==
    pc = "finished" => (escaped = "" /\ status \in {"COMPLETED", "FAILED"})

\* an exception of none of the named classes was raised and the job is over
C1_Witness ==
    /\ pc = "finished"
    /\ raised \in {"APIError", "ValidationError", "JSONDecodeError", "TypeError"}
    /\ status = "FAILED"

\* C2: job.status changes only PENDING -> PROCESSING, PROCESSING -> COMPLETED
\* and PROCESSING -> FAILED; a terminal status never changes again.
C2_StatusMonotonic ==
    [][status' # status =>
          << status, status' >> \in { << "PENDING", "PROCESSING" >>,
                                      << "PROCESSING", "COMPLETED" >>,
                                      << "PROCESSING", "FAILED" >> }]_vars

\* the speech fan-out failed its threshold after the agent phase returned
C2_Witness == pc = "finished" /\ phase = "TTS" /\ status = "FAILED"

\* C3: in every state a status poll can observe, and in every answer a poll
\* returned, job.result is set exactly when job.status is COMPLETED.
C3_ResultIffCompleted ==
    /\ Observable => (result.set <=> status = "COMPLETED")
    /\ seen.result <=> seen.status = "COMPLETED"

\* a poll returned a completed job with its result
C3_Witness == seen.status = "COMPLETED" /\ seen.result

\* C4: in every state a status poll can observe, and in every answer a poll
\* returned, job.error is set exactly when job.status is FAILED.
C4_ErrorIffFailed ==
    /\ Observable => (error.set <=> status = "FAILED")
    /\ seen.error <=> seen.status = "FAILED"

\* a poll returned a job failed by an uncategorised exception, with its error
C4_Witness ==
    seen.status = "FAILED" /\ seen.error /\ error.code = "internal_error"

\* generate_all_audio is over: it returned to process_briefing or raised
TtsOver == phase = "TTS" /\ pc \in {"build", "pb_except"}

\* the positions whose synthesis succeeded (first or second attempt)
Synthesised == { i \in DOMAIN ttsItem : ttsItem[i].st = "ok" }

CeilHalf(n) == (n + 1) \div 2

\* C5: for a script of N items of which s are synthesised, generate_all_audio
\* raises TTSCompleteFailureError when s = 0, TTSMajorityFailureError when
\* 1 <= s <= ceil(N/2) - 1, and otherwise returns a mapping whose keys are
\* exactly the synthesised positions.
C5_Thresholds ==
    TtsOver =>
        LET s == Cardinality(Synthesised) IN
        /\ s = 0 => raised = "TTSCompleteFailureError"
        /\ (1 <= s /\ s <= CeilHalf(script) - 1) => raised = "TTSMajorityFailureError"
        /\ s >= CeilHalf(script) =>
              (raised = "" /\ pc = "build" /\ audio_files = Synthesised)

\* one of three items was synthesised: the majority failure
C5_Witness ==
    TtsOver /\ script = 3 /\ Cardinality(Synthesised) = 1

\* the codes that name a timeout
TimeoutCodes == {"agent_timeout"}

\* C6: when the model asks for tool calls on every turn up to the turn cap,
\* the job ends FAILED with a timeout-class job.error.code.
C6_TurnCapIsTimeout ==
    (pc = "finished" /\ loopExit = "exhausted"
        /\ articles_read = agent_max_turns * MaxCalls)
    => (status = "FAILED" /\ error.code \in TimeoutCodes)

\* C7: a loop that used up its turns without a parsed script raises
\* AgentTimeoutError, never another error, whatever the model answered in
\* those turns; with every turn used the loop neither goes on nor returns.
C7_ExhaustionRaisesTimeout ==
    /\ (pc = "agent_except" /\ turn >= agent_max_turns) => raised = "AgentTimeoutError"
    /\ turn >= agent_max_turns => pc \in {"loop", "agent_except"}

\* the turns were used up by a mix of tool-call turns and non-stop answers
C7_Witness ==
    /\ pc = "agent_except"
    /\ turn = agent_max_turns
    /\ articles_read > 0
    /\ articles_read < agent_max_turns * MaxCalls

\* C8: the response to a finalize-now call (token budget exceeded, tool use
\* disallowed) is final: after it no further model call is issued and no
\* tool call is executed.
C8_FinalizeIsFinal ==
    finalizeResponded => pc \notin {"await_llm", "await_tools"}

\* C9: the agent loop issues at most agent_max_turns model calls and then
\* ends, by returning a script or by raising.
C9_BoundedTurns ==
    /\ [](modelCalls <= agent_max_turns)
    /\ <>(loopExit # "running")

\* the last allowed model call is in flight
C9_Witness == pc = "await_llm" /\ modelCalls = agent_max_turns

\* the turn's tool calls have all returned and the loop is about to issue
\* the next model call
TurnAnswered == pc = "loop" /\ toolCalls # << >>

\* C11: after a turn in which the model requested k tool calls, the transcript
\* holds exactly k new tool-result messages before the next model call, one
\* per call id, each carrying the result of the call with that id, whatever
\* order the calls completed in.
C11_ToolResultsKeyedById ==
    TurnAnswered =>
        /\ Len(toolMessages) = Len(toolCalls)
        /\ \A i \in DOMAIN toolCalls :
              \E k \in DOMAIN toolMessages :
                /\ toolMessages[k].tool_call_id = toolCalls[i].id
                /\ toolMessages[k].content = toolCalls[i].result
                /\ toolMessages[k].content.of = toolCalls[i].id
                /\ \A m \in DOMAIN toolMessages :
                      toolMessages[m].tool_call_id = toolCalls[i].id => m = k

\* two calls of one turn completed in the reverse of their order of request
C11_Witness ==
    /\ TurnAnswered
    /\ Len(toolMessages) = 2
    /\ toolCalls[1].rank = 2
    /\ toolCalls[2].rank = 1

\* C12: a read_url call adds one to progress.articles_read when its adapter
\* returns no incident and nothing when it returns an incident: between two
\* turns, with no call in flight, articles_read is the number of reads that
\* completed successfully.
C12_CountsSuccessfulReads ==
    pc = "loop" => articles_read = reads_ok

\* run_agent has returned or raised
AgentOver ==
    pc \in {"tts_start", "tts_pool", "build", "build_result", "pb_except", "finished"}

\* C13: a tool call whose adapter returns an incident does not end the loop:
\* its sentinel text is that call's tool result in the transcript when the
\* loop goes on to the next turn, and every incident an adapter returned is
\* in job.errors once run_agent has returned or raised.
C13_IncidentsRecoverable ==
    /\ TurnAnswered =>
          \A i \in DOMAIN toolCalls :
              toolCalls[i].result.out # "ok" =>
                  \E k \in DOMAIN toolMessages :
                      /\ toolMessages[k].tool_call_id = toolCalls[i].id
                      /\ toolMessages[k].content.out = toolCalls[i].result.out
    /\ AgentOver =>
          \A k \in DOMAIN errors :
              k <= Len(jobErrors) /\ jobErrors[k] = errors[k]

\* run_agent raised to process_briefing
AgentFailed == phase = "AGENT" /\ pc \in {"pb_except", "finished"}

LastIncident == jobErrors[Len(jobErrors)]

\* C14: when run_agent fails, job.errors ends with exactly one FATAL incident
\* of source "agent", after the adapter incidents, and its code is dedicated
\* to the kind of failure: the deadline, the exhausted turns and an
\* unparsable final output each get a code other than the generic agent_error.
C14_DedicatedFatalCode ==
    AgentFailed =>
        /\ jobErrors # << >>
        /\ LastIncident.severity = "FATAL" /\ LastIncident.source = "agent"
        /\ \A k \in 1..(Len(jobErrors) - 1) : jobErrors[k].severity # "FATAL"
        /\ loopExit = "timeout" => LastIncident.code = "agent_timeout"
        /\ loopExit = "exhausted" => LastIncident.code # "agent_error"
        /\ raised = "ValidationError" => LastIncident.code # "agent_error"

\* the wait_for deadline expired while the loop was running
TimedOut == loopExit = "timeout"

\* C15: when the deadline expires while the loop runs, with or without tool
\* calls in flight, the loop and its tool calls are cancelled, the job ends
\* FAILED with error code agent_timeout, and the fatal incident reports the
\* value progress.articles_read had at expiry (it does not change afterwards).
C15_DeadlineExpiry ==
    /\ [](TimedOut =>
            \A i \in DOMAIN toolCalls : toolCalls[i].st \notin {"pending", "running"})
    /\ [](TimedOut /\ AgentOver =>
            /\ LastIncident.code = "agent_timeout"
            /\ LastIncident.context.articles_read = articles_read)
    /\ [](TimedOut /\ pc = "finished" =>
            status = "FAILED" /\ error.code = "agent_timeout")
    /\ [][TimedOut => articles_read' = articles_read]_vars

\* the deadline expired with a read in flight, after one article was read
C15_Witness ==
    /\ TimedOut
    /\ pc = "finished"
    /\ articles_read > 0
    /\ \E i \in DOMAIN toolCalls : toolCalls[i].st = "cancelled"

\* the final text of the model was rejected by the Script schema
Unparsable == raised = "ValidationError"

\* C16: a final text that cannot be parsed as a Script is fatal and is not
\* retried: no further model call is made, speech synthesis is not started,
\* and the job ends FAILED.
C16_ParseFailureFatal ==
    Unparsable =>
        /\ pc \in {"agent_except", "pb_except", "finished"}
        /\ phase = "AGENT"
        /\ ttsItem = << >> /\ audio_files = {}
        /\ pc = "finished" => (status = "FAILED" /\ error.set)

\* the job ended after an unparsable final text on its second turn
C16_Witness ==
    Unparsable /\ pc = "finished" /\ status = "FAILED" /\ articles_read > 0

\* the tts_failed incidents recorded for position i
TtsIncidents(i) == { k \in DOMAIN ttsErrors : ttsErrors[k].index = i }

SpeechFailed ==
    raised \in {"TTSCompleteFailureError", "TTSMajorityFailureError"}

\* C18: when the speech fan-out fails its threshold, the job ends FAILED with
\* error code tts_failure, job.result stays unset and no audio reference is
\* exposed, even when some items were synthesised and their files written.
C18_SpeechFailureFails ==
    /\ SpeechFailed => (~result.set /\ result.audio_url = {} /\ status # "COMPLETED")
    /\ (SpeechFailed /\ pc = "finished") =>
          (status = "FAILED" /\ error.set /\ error.code = "tts_failure")

\* the job ended on a majority failure with one audio file written
C18_Witness ==
    /\ pc = "finished"
    /\ raised = "TTSMajorityFailureError"
    /\ audio_files # {}

\* C19: in a completed job, position i of result.articles has an audio_url
\* exactly when i is a key of result.audio_files, every key is a position of
\* the script, and at least ceil(N/2) of the N positions have audio.
C19_AudioUrlsMatchFiles ==
    result.set =>
        /\ status = "COMPLETED"
        /\ \A i \in Positions(result.articles) :
              i \in result.audio_url <=> i \in result.audio_files
        /\ result.audio_files \subseteq Positions(result.articles)
        /\ result.audio_url \subseteq Positions(result.articles)
        /\ Cardinality(result.audio_url) >= CeilHalf(result.articles)

\* a completed job of three articles, one of them without audio
C19_Witness ==
    /\ result.set
    /\ result.articles = 3
    /\ Cardinality(result.audio_url) = 2

\* nothing has failed: no adapter incident, no speech incident, no exception
\* (a missed deadline and exhausted turns are exceptions)
Clean == raised = "" /\ errors = << >> /\ ttsErrors = << >>

\* C20: if every search and fetch succeeds, the model returns a valid script
\* of N items within the turn cap and every synthesis succeeds, the job
\* eventually is COMPLETED with N audio references and no incident.
C20_CleanRunCompletes ==
    []Clean =>
        <>(/\ status = "COMPLETED"
           /\ result.set
           /\ result.articles = script
           /\ Cardinality(result.audio_url) = script
           /\ jobErrors = << >>)

\* a clean job of three articles is completed after reading an article
C20_Witness ==
    /\ Clean
    /\ pc = "finished"
    /\ status = "COMPLETED"
    /\ script = 3
    /\ reads_ok > 0
    /\ Cardinality(result.audio_url) = 3

\* C10: the loop leaves a turn only when every tool call of the turn has
\* completed; a failing call leaves no sibling in flight behind.
C10_NoAbandonedSibling ==
    \A i \in DOMAIN toolCalls : toolCalls[i].st = "running" => pc = "await_tools"

\* the incidents of a component, and those of them of maximal severity
OfComponent(component) ==
    { i \in DOMAIN incidents : incidents[i].source = component }
MaximalOf(component) ==
    { i \in OfComponent(component) :
        \A j \in OfComponent(component) :
            SeverityIndex(incidents[j].severity) <= SeverityIndex(incidents[i].severity) }

\* C21 (as the code has it): summarize_errors reports, for each component,
\* the severity and message of an incident whose severity is maximal under
\* recoverable < degraded < fatal; when several incidents of the component
\* share the maximal severity, the first one in list order is reported.
C21_WorstIsFirstMaximal ==
    \A k \in DOMAIN details :
        LET first == CHOOSE i \in MaximalOf(details[k].component) :
                         \A j \in MaximalOf(details[k].component) : i <= j
        IN  /\ details[k].severity = incidents[first].severity
            /\ details[k].sample = incidents[first].message

\* a component has two incidents of its maximal severity with different
\* messages, and is summarized
C21_Witness ==
    \E k \in DOMAIN details :
        \E i, j \in MaximalOf(details[k].component) :
            /\ i < j
            /\ incidents[i].message # incidents[j].message
            /\ incidents[i].severity = "DEGRADED"

\* C21 as stated: among the incidents of maximal severity the last one in
\* list order is reported.
C21_WorstIsLastMaximal ==
    \A k \in DOMAIN details :
        LET last == CHOOSE i \in MaximalOf(details[k].component) :
                        \A j \in MaximalOf(details[k].component) : j <= i
        IN  /\ details[k].severity = incidents[last].severity
            /\ details[k].sample = incidents[last].message

\* the sum of the counts of the entries of a summary
RECURSIVE SumCounts(_)
SumCounts(entries) ==
    IF entries = << >> THEN 0
    ELSE entries[1].count + SumCounts(Tail(entries))

\* `warnings` summarizes the recovered incidents of `errs`, and only them
WarningsOf(warnings, errs) ==
    LET recovered == { i \in DOMAIN errs : errs[i].recovered } IN
    /\ \A k \in DOMAIN warnings : warnings[k].component # "agent"
    /\ \A k \in DOMAIN warnings :
          \E i \in recovered : errs[i].source = warnings[k].component
    /\ \A i \in recovered :
          Cardinality({ k \in DOMAIN warnings :
                          warnings[k].component = errs[i].source }) = 1
    /\ SumCounts(warnings) = Cardinality(recovered)

\* the job's only incident is one 403 of the reader
OnlyForbidden ==
    jobErrors = << BriefingError("jina_forbidden", "RECOVERABLE", "tools.read_url", TRUE) >>

\* C22: a status poll's warnings are computed only from the incidents with
\* recovered = true: fatal agent incidents never appear, each component with
\* a recovered incident yields exactly one entry and the counts sum to the
\* number of recovered incidents; a completed job whose only incident is one
\* 403 of the reader shows exactly one warning entry.
C22_WarningsFromRecovered ==
    /\ [](seen.status \in {"COMPLETED", "FAILED"} =>
            /\ WarningsOf(seen.warnings, jobErrors)
            /\ (seen.status = "COMPLETED" /\ OnlyForbidden) =>
                  /\ Len(seen.warnings) = 1
                  /\ seen.warnings[1].sample = "jina_forbidden")
    /\ [][seen' # seen => WarningsOf(seen'.warnings, jobErrors)]_vars

\* a poll of a completed job whose only incident is one 403 of the reader
C22_Witness ==
    /\ seen.status = "COMPLETED"
    /\ OnlyForbidden
    /\ Len(seen.warnings) = 1

\* `entries` has one entry for each component of `errs`, with the number of
\* the component's incidents
DetailsOf(entries, errs) ==
    /\ \A k \in DOMAIN entries :
          entries[k].count =
              Cardinality({ i \in DOMAIN errs : errs[i].source = entries[k].component })
    /\ \A i \in DOMAIN errs :
          Cardinality({ k \in DOMAIN entries :
                          entries[k].component = errs[i].source }) = 1
    /\ SumCounts(entries) = Len(errs)

\* the exceptions process_briefing has a clause of their own for
Categorized ==
    {"AgentTimeoutError", "TimeoutError",
     "TTSCompleteFailureError", "TTSMajorityFailureError"}

\* C23: an exception of either phase that is not AgentTimeoutError,
\* TimeoutError or a speech threshold error ends the job FAILED with code
\* internal_error, a message that contains the exception's type name, and
\* details equal to the summary of the incidents accumulated so far.
C23_UncategorizedIsInternal ==
    (pc = "finished" /\ raised # "" /\ raised \notin Categorized) =>
        /\ status = "FAILED"
        /\ error.set
        /\ error.code = "internal_error"
        /\ error.message.type = raised
        /\ error.details = summarize_errors(jobErrors)
        /\ DetailsOf(error.details, jobErrors)

\* a job failed on a ValidationError after a recovered incident of a tool
C23_Witness ==
    /\ pc = "finished"
    /\ raised = "ValidationError"
    /\ status = "FAILED"
    /\ Len(jobErrors) = 2
    /\ Len(error.details) = 2

\* the age of a registered job at the time of a lookup or of a sweep
Age(job, t) == t - job.created_at

\* C24: get_job returns absent for an id that was never created and for a
\* job older than the retention window, whether or not a sweep has run since
\* the job expired; for a created, unexpired job it returns that same job.
C24_LookupHonoursRetention ==
    lookup.op = "get_job" =>
        IF lookup.id \notin DOMAIN lookup.before
        THEN lookup.ret = Absent
        ELSE IF Age(lookup.before[lookup.id], lookup.at) > audio_cache_ttl_hours
        THEN lookup.ret = Absent
        ELSE lookup.ret = lookup.before[lookup.id]

\* C25: cleanup_old_jobs removes exactly the registry entries whose
\* created_at is older than the retention window, whatever their status
\* (PROCESSING included), and leaves every other entry and the contents of
\* every job unchanged.
C25_SweepRemovesExactlyOld ==
    lookup.op = "cleanup_old_jobs" =>
        /\ DOMAIN lookup.after =
              { j \in DOMAIN lookup.before :
                  Age(lookup.before[j], lookup.at) <= audio_cache_ttl_hours }
        /\ \A j \in DOMAIN lookup.after : lookup.after[j] = lookup.before[j]
        /\ jobs = lookup.after

\* a sweep removed a job that was PROCESSING and kept a job exactly as old as
\* the window
C25_Witness ==
    /\ lookup.op = "cleanup_old_jobs"
    /\ \E j \in DOMAIN lookup.before :
          /\ lookup.before[j].status = "PROCESSING"
          /\ j \notin DOMAIN lookup.after
    /\ \E j \in DOMAIN lookup.after :
          Age(lookup.after[j], lookup.at) = audio_cache_ttl_hours

\* the cache and the ttl of an adapter
CacheOf(fn) == IF fn = "search_hn" THEN hn_cache ELSE url_cache
TtlOf(fn) == IF fn = "search_hn" THEN hn_cache_ttl ELSE url_cache_ttl

\* the adapter call before this step succeeded over the network
FetchedBefore ==
    /\ adapterCall.fn # "none"
    /\ adapterCall.network
    /\ adapterCall.err = NoIncident

\* this step is a call of the adapter and with the key of the call before it
RepeatedCall ==
    /\ now' = now
    /\ adapterCall'.fn = adapterCall.fn
    /\ adapterCall'.key = adapterCall.key

\* the call of this step is answered from the cache with `content`
ServedFromCache(content) ==
    /\ ~adapterCall'.network
    /\ adapterCall'.content = content
    /\ adapterCall'.err = NoIncident
    /\ adapterCall'.raised = ""

\* C26: after a successful search_hn (or read_url) for a key, a repeated call
\* with the same key within the TTL and before eviction performs no network
\* request, returns the same content as the first call and no incident.
\* The same holds of every later call that finds the key's entry, unexpired,
\* in the cache.
C26_RepeatServedFromCache ==
    [][/\ (FetchedBefore /\ RepeatedCall
              /\ adapterCall'.at < adapterCall.at + TtlOf(adapterCall.fn)) =>
             ServedFromCache(adapterCall.content)
       /\ (now' = now /\ adapterCall'.fn # "none") =>
             \A i \in DOMAIN CacheOf(adapterCall'.fn) :
                 LET entry == CacheOf(adapterCall'.fn)[i] IN
                 (entry.key = adapterCall'.key /\ now < entry.expires) =>
                     ServedFromCache(entry.value)]_vars

\* a page read a tick ago is read again and served from the cache
C26_Witness ==
    /\ adapterCall.fn = "read_url"
    /\ ~adapterCall.network
    /\ adapterCall.raised = ""
    /\ adapterCall.content.kind = "text"
    /\ adapterCall.at > 0

\* the provider answered the last adapter call with a failure: an exception
\* of the client or an error status
ProviderFailed ==
    /\ adapterCall.fn # "none"
    /\ adapterCall.response.kind \in {"TimeoutException", "HTTPStatusError", "Exception"}

\* the strings that announce a failure to the model
Sentinels ==
    {"[NO RESULTS]", "[TIMEOUT]", "[ERROR]", "[THIN CONTENT]", "[JINA_FORBIDDEN]",
     "[JINA_RATE_LIMITED]", "[JINA_SERVER_ERROR]", "[JINA_HTTP_ERROR]"}

\* C27: for every provider outcome and every argument value the model can
\* pass, search_hn and read_url return a (string, incident-or-none) pair and
\* never raise; every failure outcome yields a non-empty sentinel string
\* together with exactly one incident.
C27_AdaptersNeverRaise ==
    adapterCall.fn # "none" =>
        /\ adapterCall.raised = ""
        /\ ProviderFailed =>
              /\ adapterCall.content.kind \in Sentinels
              /\ adapterCall.err # NoIncident

\* the number of the limit argument of the last search, and its listed entries
RequestedLimit == adapterCall.key[3]
Listing == adapterCall.content.entries

\* the last adapter call is a search that listed the provider's hits
SearchListed ==
    /\ adapterCall.fn = "search_hn"
    /\ adapterCall.content.kind = "Found"

\* C28: for every requested limit (above the configured maximum, zero and
\* negative included) and every number of provider hits, the number of
\* numbered entries of search_hn's output never exceeds
\* min(requested_limit, configured_max).  (A listing cannot have fewer than
\* zero entries: for a negative limit the bound is read as zero.)
C28_ListingWithinLimit ==
    SearchListed =>
        Len(Listing) <= Min(IF RequestedLimit < 0 THEN 0 ELSE RequestedLimit,
                            max_search_results)

\* C29: a search with a query and a sort mode other than relevance (date or
\* points) is fetched from the recency endpoint and listed in non-increasing
\* order of points.
C29_RecentThenByPoints ==
    (SearchListed /\ adapterCall.network /\ adapterCall.key[1] > 0
        /\ adapterCall.key[2] # "relevance") =>
        /\ adapterCall.endpoint = "search_by_date"
        /\ \A i, j \in DOMAIN Listing : i < j => Listing[i] >= Listing[j]

\* the provider answered the last search with zero hits
ZeroHits ==
    /\ adapterCall.fn = "search_hn"
    /\ adapterCall.response.kind = "hits"
    /\ adapterCall.response.hits = << >>

\* C30: a search with zero provider hits does not raise: it returns guidance
\* text and exactly one RECOVERABLE incident with code hn_no_results and
\* recovered = true.
C30_ZeroHitsRecoverable ==
    ZeroHits =>
        /\ adapterCall.raised = ""
        /\ adapterCall.content.kind = "[NO RESULTS]"
        /\ adapterCall.err # NoIncident
        /\ adapterCall.err.code = "hn_no_results"
        /\ adapterCall.err.severity = "RECOVERABLE"
        /\ adapterCall.err.recovered

\* a search by date with a query found nothing
C30_Witness ==
    /\ ZeroHits
    /\ adapterCall.key[1] > 0
    /\ adapterCall.key[2] = "date"
    /\ adapterCall.err.code = "hn_no_results"

\* the reader answered the last call with a text; its content is the text
\* without the white space at its ends
TextRead ==
    /\ adapterCall.fn = "read_url"
    /\ adapterCall.network
    /\ adapterCall.response.kind = "text"
ContentLen == adapterCall.response.len - adapterCall.response.pad

\* C31: when the fetched content has fewer than MinContentLength characters
\* (zero included), read_url returns a non-empty string that contains the
\* content together with a jina_thin_content incident; content of exactly
\* MinContentLength characters or more produces no thin-content incident.
C31_ThinContentFlagged ==
    TextRead =>
        IF ContentLen < MinContentLength
        THEN /\ adapterCall.raised = ""
             /\ adapterCall.content.kind = "[THIN CONTENT]"
             /\ adapterCall.content.len = ContentLen
             /\ adapterCall.content.body = adapterCall.response.body
             /\ adapterCall.err # NoIncident
             /\ adapterCall.err.code = "jina_thin_content"
        ELSE adapterCall.err = NoIncident

\* the reader returned nothing but white space: the content is empty
C31_Witness ==
    /\ TextRead
    /\ adapterCall.response.pad = 1
    /\ ContentLen = 0
    /\ adapterCall.content.kind = "[THIN CONTENT]"
    /\ adapterCall.err.code = "jina_thin_content"

\* C32: for fetched content of length L >= MinContentLength and truncation
\* budget B, read_url returns the first min(L, B) characters with no
\* incident: exactly B characters when L > B, the content unmodified when
\* L <= B.
C32_TruncatedToBudget ==
    (TextRead /\ ContentLen >= MinContentLength) =>
        /\ adapterCall.raised = ""
        /\ adapterCall.err = NoIncident
        /\ adapterCall.content.kind = "text"
        /\ adapterCall.content.body = adapterCall.response.body
        /\ IF ContentLen > max_article_content_length
           THEN adapterCall.content.len = max_article_content_length
           ELSE adapterCall.content.len = ContentLen

\* a text longer than the budget was cut to the budget
C32_Witness ==
    /\ TextRead
    /\ ContentLen > max_article_content_length
    /\ adapterCall.content.kind = "text"
    /\ adapterCall.content.len = max_article_content_length

\* list `a` is a prefix of list `b`
IsPrefix(a, b) == Len(a) <= Len(b) /\ SubSeq(b, 1, Len(a)) = a

\* C33: job.errors is append-only: no step of the agent loop, the speech
\* fan-out or the orchestrator removes, reorders or modifies an incident
\* already in job.errors; every earlier value of the list is a prefix of
\* every later one.
C33_ErrorsAppendOnly ==
    [][IsPrefix(jobErrors, jobErrors')]_vars

\* the speech phase added its incident after the incident of a tool
C33_Witness ==
    /\ Len(jobErrors) >= 2
    /\ jobErrors[1].source = "tools.read_url"
    /\ jobErrors[Len(jobErrors)].source = "tts"

\* the agent phase ended without a Script: _agent_loop raised, ran out of
\* turns or was cut by the deadline
AgentPhaseFailed == loopExit \in {"raised", "exhausted", "timeout"}

\* a synthesis request was issued or an audio file was written
SpeechStarted ==
    \/ ttsItem # << >>
    \/ audio_files # {}
    \/ ttsErrors # << >>

\* C34: no synthesis request is issued and no audio file is written for a
\* job unless run_agent has returned a Script for it; when the agent phase
\* fails, progress.phase never becomes TTS and the job goes from phase AGENT
\* straight to FAILED.
C34_SpeechOnlyAfterScript ==
    /\ [](SpeechStarted => (loopExit = "returned" /\ script > 0 /\ AgentOver))
    /\ [](AgentPhaseFailed => (phase = "AGENT" /\ ~SpeechStarted))
    /\ []((AgentPhaseFailed /\ pc = "finished") => status = "FAILED")
    /\ [][(AgentPhaseFailed /\ status' # status) =>
              (status' = "FAILED" /\ phase = "AGENT" /\ phase' = "AGENT")]_vars

\* the deadline cut the agent phase after an article was read, and the job
\* failed in phase AGENT
C34_Witness ==
    /\ loopExit = "timeout"
    /\ articles_read > 0
    /\ pc = "finished"
    /\ status = "FAILED"
    /\ phase = "AGENT"
    /\ ~SpeechStarted

\* generate_all_audio has returned or raised its threshold error
SpeechOver ==
    /\ ttsItem # << >>
    /\ pc \in {"build", "build_result", "pb_except", "finished"}

\* the incidents of job.errors that name position i of the script
SpeechIncidents(i) ==
    { k \in DOMAIN jobErrors :
        /\ jobErrors[k].source = "tts"
        /\ jobErrors[k].message = << "Audio generation failed for article", i >> }

\* C35: when generate_all_audio finishes, by returning or by raising a
\* threshold error, job.errors holds exactly one DEGRADED incident of source
\* "tts" per failed position: the number of these incidents plus the number
\* of mapping entries is N, and no position has both a mapping entry and an
\* incident.
C35_OneIncidentPerFailedPosition ==
    SpeechOver =>
        LET new == { k \in DOMAIN jobErrors : jobErrors[k].source = "tts" } IN
        /\ \A k \in new : jobErrors[k].severity = "DEGRADED"
        /\ Cardinality(new) + Cardinality(audio_files) = script
        /\ \A i \in Positions(script) :
              IF i \in audio_files
              THEN SpeechIncidents(i) = {}
              ELSE /\ ttsItem[i].st = "failed"
                   /\ Cardinality(SpeechIncidents(i)) = 1

\* the fan-out raised its threshold error with one file written and two
\* positions failed
C35_Witness ==
    /\ SpeechOver
    /\ SpeechFailed
    /\ Cardinality(audio_files) = 1
    /\ script = 3
    /\ Cardinality({ k \in DOMAIN jobErrors : jobErrors[k].source = "tts" }) = 2

\* the adapter call before this step returned an incident
IncidentBefore ==
    /\ adapterCall.fn # "none"
    /\ adapterCall.raised = ""
    /\ adapterCall.err # NoIncident

\* C36: only successful results are cached. After a search_hn or read_url
\* call that went to the network and returned an incident (timeout, HTTP
\* error, zero hits, thin content, unexpected error), the next call with the
\* same key goes to the network again; after any call that returned an
\* incident the next call with the same key is not answered from the cache;
\* and a cache only ever holds a listing of search_hn or the text of a page.
C36_FailuresNotCached ==
    /\ [][(IncidentBefore /\ RepeatedCall) =>
             /\ adapterCall.network => adapterCall'.network
             /\ adapterCall'.network \/ adapterCall'.err # NoIncident]_vars
    /\ [](\A fn \in {"search_hn", "read_url"} :
             \A i \in DOMAIN CacheOf(fn) :
                 CacheOf(fn)[i].value.kind \in {"Found", "text"})

\* a search that found nothing is repeated an instant later, asks the
\* provider again and now finds a story
C36_Witness ==
    /\ adapterCall.fn = "search_hn"
    /\ adapterCall.prior.code = "hn_no_results"
    /\ adapterCall.network
    /\ adapterCall.err = NoIncident
    /\ adapterCall.at = 0
    /\ adapterCall.response.hits = << 0, 1 >>

\* C37: in every observable state progress.phase is DONE if and only if
\* status is COMPLETED if and only if completed_at is set; a FAILED job keeps
\* the phase it failed in (AGENT or TTS) and has no completion timestamp; a
\* PENDING job has phase PENDING.
C37_PhaseStatusAgree ==
    Observable =>
        /\ (phase = "DONE") <=> (status = "COMPLETED")
        /\ (status = "COMPLETED") <=> completed_at
        /\ status = "FAILED" => (phase \in {"AGENT", "TTS"} /\ ~completed_at)
        /\ status = "PENDING" => phase = "PENDING"

\* the job failed in the speech phase and is over
C37_Witness ==
    /\ pc = "finished"
    /\ status = "FAILED"
    /\ phase = "TTS"
    /\ ~completed_at
    /\ error.set

\* C38: the speech fan-out and the finalisation of the job run without a
\* suspension point of the event loop: no state a poll can be served in, and
\* no state a poll returned, has status PROCESSING together with phase TTS;
\* and when a poll that returned PROCESSING in phase AGENT is followed by a
\* poll that returns something else, that is a terminal state (COMPLETED
\* with phase DONE, or FAILED).
C38_SpeechNotObservable ==
    /\ [](Observable => ~(status = "PROCESSING" /\ phase = "TTS"))
    /\ [](~(seen.status = "PROCESSING" /\ seen.phase = "TTS"))
    /\ [][(seen.status = "PROCESSING" /\ seen.phase = "AGENT" /\ seen' # seen) =>
             \/ seen'.status = "COMPLETED" /\ seen'.phase = "DONE"
             \/ seen'.status = "FAILED"]_vars

\* a poll finds the job failed in the speech phase, some audio written
C38_Witness ==
    /\ seen.phase = "TTS"
    /\ seen.status = "FAILED"
    /\ audio_files # {}

\* a response with no tool calls that is not a stop-with-content arrives:
\* the only way from the model call straight back to the top of the loop
NonStopStep == pc = "await_llm" /\ pc' = "loop"

\* the loop stands at its top after such a response
AfterNonStop == pc = "loop" /\ turn > 0 /\ toolCalls = << >>

\* C39: a model response that has no tool calls and is not a stop-with-content
\* is neither final nor an error: it uses up one turn, adds nothing to the
\* transcript and changes nothing of the job, and the loop goes on to the
\* next model call, or to the exhaustion of the turn cap.
C39_NonStopConsumesTurn ==
    /\ [][NonStopStep =>
             /\ turn' = turn + 1
             /\ toolMessages' = toolMessages
             /\ toolCalls' = << >>
             /\ loopExit' = "running" /\ raised' = "" /\ script' = 0
             /\ errors' = errors /\ jobErrors' = jobErrors
             /\ status' = "PROCESSING" /\ phase' = "AGENT"]_vars
    /\ [][AfterNonStop =>
             \/ /\ turn < agent_max_turns
                /\ pc' = "await_llm" /\ modelCalls' = modelCalls + 1
             \/ /\ turn = agent_max_turns
                /\ pc' = "agent_except" /\ loopExit' = "exhausted"]_vars

\* articles were read in the first turn, the second response was neither a
\* tool request nor a final answer, and a turn is left
C39_Witness ==
    /\ AfterNonStop
    /\ turn = 2
    /\ articles_read > 0
    /\ modelCalls = 2
    /\ TurnsLeft(turn)

\* the fields of a Job that process_briefing and its callees write
JobFields(job) ==
    << job.status, job.phase, job.articles_read, job.result, job.error,
       job.completed_at, job.jobErrors >>

\* C40: for two jobs processed concurrently, under every interleaving of
\* their suspension points, the status, progress, result and errors of a job
\* change only in a step of that job's own process_briefing execution, a
\* step is a step of one execution, and every incident in a job's errors
\* (and in its run_agent's list) was produced by a tool call or a synthesis
\* of that job.
C40_JobsIsolated ==
    /\ [](\A j \in PairIds :
             /\ \A k \in DOMAIN pair[j].jobErrors : pair[j].jobErrors[k].by = j
             /\ \A k \in DOMAIN pair[j].errors : pair[j].errors[k].by = j)
    /\ [][\A j \in PairIds :
             JobFields(pair'[j]) # JobFields(pair[j]) => pair'[j].pc # pair[j].pc]_vars
    /\ [][Cardinality({ j \in PairIds : pair'[j].pc # pair[j].pc }) <= 1]_vars

\* the first job is over with an incident of a read and one of the speech
\* fan-out in its errors, while the second, suspended in its agent loop,
\* holds an incident of its own read that has not reached its errors
C40_Witness ==
    /\ pair[1].pc = "finished"
    /\ Len(pair[1].jobErrors) >= 2
    /\ pair[1].jobErrors[1].incident.source = "tools.read_url"
    /\ pair[2].pc = "await_llm"
    /\ pair[2].errors # << >>
    /\ pair[2].jobErrors = << >>
====
